---- MODULE Spec2Model ----
(***************************************************************************)
(* Water quality classification service (src/app.py).                      *)
(*                                                                         *)
(* Specifications over the same variables:                                 *)
(*   SpecThreshold  the pure function simple_classification applied to a   *)
(*                  reading drawn from a grid around every threshold;      *)
(*   Spec           the Flask process: model loading at startup, then the  *)
(*                  handlers GET /health and POST /classify;               *)
(*   SpecBoth       the two side by side.                                  *)
(*                                                                         *)
(* Real numbers are represented in tenths: the integer 65 stands for 6.5,  *)
(* 4000 for 400.0.  Every literal of the source is written in tenths.      *)
(* Python values are tagged records; a Python str is a sequence of         *)
(* one-character strings so that strip(), float() and str() are computed.  *)
(***************************************************************************)
EXTENDS Integers, Sequences, FiniteSets, TLC

VARIABLES
    pc,          \* position of the process / of the direct call
    model,       \* module-level `model` (src/app.py:29-34)
    request,     \* body of the request being answered by the last handler
    predictOut,  \* what model.predict did in the last /classify call
    probaOut,    \* what model.predict_proba did in the last /classify call
    response,    \* (status, JSON body) returned by the last handler
    reading,     \* arguments of the direct call of simple_classification
    result       \* dict returned by the direct call

vars == <<pc, model, request, predictOut, probaOut, response, reading, result>>

(***************************************************************************)
(* Bounds                                                                  *)
(***************************************************************************)
\* every reading within Near tenths of a threshold is enumerated
Near == 1

\* a model that answers with an integer answers with one of -1 .. MaxLabel
MaxLabel == 3

(***************************************************************************)
(* Python values                                                           *)
(***************************************************************************)
PyNone == [kind |-> "None"]

PyNum(x) == [kind |-> "num", val |-> x]

PyStr(s) == [kind |-> "str", val |-> s]

EmptyDict == [k \in {} |-> PyNone]

\* dict[key] = value on a dict represented as a function
DictSet(d, key, value) ==
    [k \in (DOMAIN d) \cup {key} |-> IF k = key THEN value ELSE d[k]]

(***************************************************************************)
(* simple_classification (src/app.py:36-93)                                *)
(***************************************************************************)
\* the f-string of one reason: parameter, wording, the value, the ideal range
Reason(param, wording, value, range) ==
    [param |-> param, wording |-> wording, value |-> value, range |-> range]

\* lines 38-41
InitCounts ==
    [not_suitable_count |-> 0, less_suitable_count |-> 0, reasons |-> <<>>]

NotSuitable(st, r) ==
    [st EXCEPT !.not_suitable_count = @ + 1, !.reasons = Append(@, r)]

LessSuitable(st, r) ==
    [st EXCEPT !.less_suitable_count = @ + 1, !.reasons = Append(@, r)]

\* pH check with the two edges counted as bad
CheckPhEdgesBad(st, ph) ==
    IF ph <= 60 \/ ph >= 85
    THEN NotSuitable(st, Reason("pH", "tidak layak", ph, "6.5-7.8"))
    ELSE IF (60 < ph /\ ph < 65) \/ (78 < ph /\ ph < 85)
    THEN LessSuitable(st, Reason("pH", "kurang layak", ph, "6.5-7.8"))
    ELSE st

\* lines 43-49
CheckPh(st, ph) ==
    IF ph < 60 \/ ph > 85
    THEN NotSuitable(st, Reason("pH", "tidak layak", ph, "6.5-7.8"))
    ELSE IF (60 <= ph /\ ph < 65) \/ (78 < ph /\ ph <= 85)
    THEN LessSuitable(st, Reason("pH", "kurang layak", ph, "6.5-7.8"))
    ELSE st

\* TDS check with a lower bad zone added and 600 counted as bad
CheckTdsShifted(st, tds) ==
    IF tds >= 6000 \/ tds < 0
    THEN NotSuitable(st, Reason("TDS", "tidak layak", tds, "50-400 mg/L"))
    ELSE IF tds < 500 \/ (4000 < tds /\ tds < 6000)
    THEN LessSuitable(st, Reason("TDS", "kurang layak", tds, "50-400 mg/L"))
    ELSE st

\* lines 51-57
CheckTds(st, tds) ==
    IF tds > 6000
    THEN NotSuitable(st, Reason("TDS", "tidak layak", tds, "50-400 mg/L"))
    ELSE IF tds < 500 \/ (4000 < tds /\ tds <= 6000)
    THEN LessSuitable(st, Reason("TDS", "kurang layak", tds, "50-400 mg/L"))
    ELSE st

\* lines 59-65
CheckSuhu(st, suhu) ==
    IF suhu < 210 \/ suhu > 270
    THEN NotSuitable(st, Reason("Suhu", "tidak layak", suhu, "23-25"))
    ELSE IF (210 <= suhu /\ suhu < 230) \/ (250 < suhu /\ suhu <= 270)
    THEN LessSuitable(st, Reason("Suhu", "kurang layak", suhu, "23-25"))
    ELSE st

\* DO check that puts its reason in front of the list
CheckDoPrepend(st, do) ==
    IF do < 25 \/ do > 70
    THEN [st EXCEPT !.not_suitable_count = @ + 1,
                    !.reasons = <<Reason("DO", "tidak layak", do, "4-6 mg/L")>> \o @]
    ELSE IF (25 <= do /\ do < 40) \/ (60 < do /\ do <= 70)
    THEN [st EXCEPT !.less_suitable_count = @ + 1,
                    !.reasons = <<Reason("DO", "kurang layak", do, "4-6 mg/L")>> \o @]
    ELSE st

\* lines 67-73
CheckDo(st, do) ==
    IF do < 25 \/ do > 70
    THEN NotSuitable(st, Reason("DO", "tidak layak", do, "4-6 mg/L"))
    ELSE IF (25 <= do /\ do < 40) \/ (60 < do /\ do <= 70)
    THEN LessSuitable(st, Reason("DO", "kurang layak", do, "4-6 mg/L"))
    ELSE st

\* aggregation that lets a marginal parameter win over a bad one
AggregateMarginalFirst(not_suitable_count, less_suitable_count) ==
    IF less_suitable_count > 0 THEN 0
    ELSE IF not_suitable_count > 0 THEN 2
    ELSE 1

\* lines 75-81
Aggregate(not_suitable_count, less_suitable_count) ==
    IF not_suitable_count > 0 THEN 2
    ELSE IF less_suitable_count > 0 THEN 0
    ELSE 1

\* the names of 0 and 1 exchanged
LabelNameSwapped(classification) ==
    IF classification = 0 THEN "Layak"
    ELSE IF classification = 1 THEN "Kurang Layak"
    ELSE IF classification = 2 THEN "Tidak Layak"
    ELSE "Unknown"

\* label_names.get(classification, 'Unknown'), lines 83/87 and 167/171
LabelName(classification) ==
    IF classification = 0 THEN "Kurang Layak"
    ELSE IF classification = 1 THEN "Layak"
    ELSE IF classification = 2 THEN "Tidak Layak"
    ELSE "Unknown"

\* the returned dict with a confidence of 100 put in
ThresholdDictWithConfidence(classification, st) ==
    [classification |-> PyNum(classification),
     classification_label |-> PyStr(LabelName(classification)),
     confidence |-> PyNum(1000),
     method |-> PyStr("simple_threshold"),
     reasons |-> [kind |-> "list", val |-> st.reasons],
     not_suitable_count |-> PyNum(st.not_suitable_count),
     less_suitable_count |-> PyNum(st.less_suitable_count)]

\* lines 85-93
ThresholdDict(classification, st) ==
    [classification |-> PyNum(classification),
     classification_label |-> PyStr(LabelName(classification)),
     confidence |-> PyNone,
     method |-> PyStr("simple_threshold"),
     reasons |-> [kind |-> "list", val |-> st.reasons],
     not_suitable_count |-> PyNum(st.not_suitable_count),
     less_suitable_count |-> PyNum(st.less_suitable_count)]

\* lines 75-93 on the counts and reasons the four checks leave
Finish(st) ==
    ThresholdDict(Aggregate(st.not_suitable_count, st.less_suitable_count), st)

\* lines 36-93
simple_classification(ph, tds, suhu, do) ==
    Finish(CheckDo(CheckSuhu(CheckTds(CheckPh(InitCounts, ph), tds), suhu), do))

(***************************************************************************)
(* Python str as a sequence of characters                                  *)
(***************************************************************************)
PyChars(s) == [kind |-> "chars", val |-> s]

PyBool(b) == [kind |-> "bool", val |-> b]

Whitespace == {" ", "\t", "\n"}

RECURSIVE LStrip(_)
LStrip(s) ==
    IF s # <<>> /\ Head(s) \in Whitespace THEN LStrip(Tail(s)) ELSE s

RECURSIVE RStrip(_)
RStrip(s) ==
    IF s # <<>> /\ s[Len(s)] \in Whitespace
    THEN RStrip(SubSeq(s, 1, Len(s) - 1))
    ELSE s

\* str.strip()
Strip(s) == RStrip(LStrip(s))

\* `needle in haystack` on two str
IsSubstring(needle, haystack) ==
    \E i \in 0..(Len(haystack) - Len(needle)) :
        SubSeq(haystack, i + 1, i + Len(needle)) = needle

DigitChars == <<"0", "1", "2", "3", "4", "5", "6", "7", "8", "9">>

DigitValue(c) == (CHOOSE i \in 1..10 : DigitChars[i] = c) - 1

IsDigit(c) == \E i \in 1..10 : DigitChars[i] = c

\* decimal numeral of a natural number
RECURSIVE NatChars(_)
NatChars(n) ==
    IF n < 10 THEN <<DigitChars[n + 1]>>
    ELSE NatChars(n \div 10) \o <<DigitChars[(n % 10) + 1]>>

\* value of a non-empty sequence of digits
RECURSIVE DigitsValue(_)
DigitsValue(ds) ==
    IF ds = <<>> THEN 0
    ELSE DigitsValue(SubSeq(ds, 1, Len(ds) - 1)) * 10 + DigitValue(ds[Len(ds)])

AllDigits(ds) == \A i \in 1..Len(ds) : IsDigit(ds[i])

(***************************************************************************)
(* Outcome of an expression that may raise                                 *)
(***************************************************************************)
Ok(v) == [ok |-> TRUE, val |-> v]

Raise(e) == [ok |-> FALSE, exc |-> e]

(***************************************************************************)
(* float(x), lines 126-129                                                 *)
(***************************************************************************)
\* digits, at most one point, at least one digit; the value is in tenths, so
\* a numeral with more than one fractional digit is outside the modelled inputs
Numeral(ip, fp) ==
    IF AllDigits(ip) /\ AllDigits(fp) /\ Len(ip) + Len(fp) > 0 /\ Len(fp) <= 1
    THEN Ok(DigitsValue(ip) * 10 + DigitsValue(fp))
    ELSE Raise("ValueError")

SplitAt(u, dots) ==
    IF dots = {} THEN Numeral(u, <<>>)
    ELSE IF Cardinality(dots) > 1 THEN Raise("ValueError")
    ELSE Numeral(SubSeq(u, 1, (CHOOSE i \in dots : TRUE) - 1),
                 SubSeq(u, (CHOOSE i \in dots : TRUE) + 1, Len(u)))

Unsigned(u) == SplitAt(u, {i \in 1..Len(u) : u[i] = "."})

Negated(r) == IF r.ok THEN Ok(0 - r.val) ELSE r

Signed(t) ==
    IF t # <<>> /\ Head(t) = "-" THEN Negated(Unsigned(Tail(t)))
    ELSE IF t # <<>> /\ Head(t) = "+" THEN Unsigned(Tail(t))
    ELSE Unsigned(t)

\* float() of a str: surrounding whitespace and a sign are accepted
FloatOfChars(s) == Signed(Strip(s))

\* float(v) of a decoded JSON value
PyFloat(v) ==
    IF v.kind = "num" THEN Ok(v.val)
    ELSE IF v.kind = "bool" THEN Ok(IF v.val THEN 10 ELSE 0)
    ELSE IF v.kind = "chars" THEN FloatOfChars(v.val)
    ELSE Raise("TypeError")

(***************************************************************************)
(* Request body, lines 118-124                                             *)
(***************************************************************************)
KEYS == <<"ph", "tds", "suhu", "do">>

KeyChars(k) ==
    IF k = "ph" THEN <<"p", "h">>
    ELSE IF k = "tds" THEN <<"t", "d", "s">>
    ELSE IF k = "suhu" THEN <<"s", "u", "h", "u">>
    ELSE <<"d", "o">>

\* `k in data`
KeyIn(k, data) ==
    IF data.kind = "dict" THEN Ok(k \in DOMAIN data.val)
    ELSE IF data.kind = "list"
    THEN Ok(\E i \in 1..Len(data.val) : data.val[i] = KeyChars(k))
    ELSE IF data.kind = "chars" THEN Ok(IsSubstring(KeyChars(k), data.val))
    ELSE Raise("TypeError")

\* all(k in data for k in ['ph', 'tds', 'suhu', 'do']): stops at the first
\* key that is absent, raises where `in` raises
RECURSIVE AllKeysFrom(_, _)
AllKeysFrom(i, data) ==
    IF i > Len(KEYS) THEN Ok(TRUE)
    ELSE LET r == KeyIn(KEYS[i], data)
         IN  IF ~r.ok THEN r
             ELSE IF ~r.val THEN Ok(FALSE)
             ELSE AllKeysFrom(i + 1, data)

\* data[k]
GetItem(data, k) ==
    IF data.kind = "dict" THEN Ok(data.val[k]) ELSE Raise("TypeError")

FloatOf(item) == IF item.ok THEN PyFloat(item.val) ELSE item

\* float(data[k])
FloatItem(data, k) == FloatOf(GetItem(data, k))

(***************************************************************************)
(* Model path of /classify, lines 137-183                                  *)
(***************************************************************************)
S_Layak == <<"L", "a", "y", "a", "k">>

S_KurangLayak == <<"K", "u", "r", "a", "n", "g", " ", "L", "a", "y", "a", "k">>

S_Kuranglayak == <<"K", "u", "r", "a", "n", "g", " ", "l", "a", "y", "a", "k">>

S_TidakLayak == <<"T", "i", "d", "a", "k", " ", "L", "a", "y", "a", "k">>

S_Tidaklayak == <<"T", "i", "d", "a", "k", " ", "l", "a", "y", "a", "k">>

\* label_map.get(key, 1), lines 149-156
LabelMapGet(key) ==
    IF key = S_Layak THEN 1
    ELSE IF key = S_KurangLayak THEN 0
    ELSE IF key = S_Kuranglayak THEN 0
    ELSE IF key = S_TidakLayak THEN 2
    ELSE IF key = S_Tidaklayak THEN 2
    ELSE 1

\* int(x) of a number in tenths: truncation towards zero
PyInt(x) == IF x >= 0 THEN x \div 10 ELSE 0 - ((0 - x) \div 10)

\* lines 147-158; a prediction is a str, an integer or a float (in tenths)
PredictionInt(prediction) ==
    IF prediction.kind = "chars" THEN LabelMapGet(Strip(prediction.val))
    ELSE IF prediction.kind = "int" THEN prediction.val
    ELSE PyInt(prediction.val)

\* str(prediction), line 174
StrOf(prediction) ==
    IF prediction.kind = "chars" THEN prediction.val
    ELSE IF prediction.kind = "int"
    THEN (IF prediction.val < 0 THEN <<"-">> ELSE <<>>)
         \o NatChars(IF prediction.val < 0 THEN 0 - prediction.val ELSE prediction.val)
    ELSE LET a == IF prediction.val < 0 THEN 0 - prediction.val ELSE prediction.val
         IN  (IF prediction.val < 0 THEN <<"-">> ELSE <<>>)
             \o NatChars(a \div 10) \o <<".">> \o NatChars(a % 10)

SeqMax(q) == CHOOSE x \in {q[i] : i \in 1..Len(q)} : \A j \in 1..Len(q) : q[j] <= x

\* a failure of predict_proba leaves the handler through the outer except
ConfidencePropagating(proba) ==
    IF proba.kind = "return" /\ proba.val # <<>>
    THEN Ok(PyNum(SeqMax(proba.val) * 100))
    ELSE IF proba.kind = "raise" THEN Raise(proba.exc)
    ELSE IF proba.kind = "missing" THEN Raise("AttributeError")
    ELSE Raise("ValueError")

\* lines 160-165: the bare except turns a missing method, a raised error and
\* max() of an empty row into None
Confidence(proba) ==
    IF proba.kind = "return" /\ proba.val # <<>>
    THEN Ok(PyNum(SeqMax(proba.val) * 100))
    ELSE Ok(PyNone)

\* lines 167-181
ModelDictOf(prediction, prediction_int, confidence, ph, tds, suhu, do) ==
    [classification |-> PyNum(prediction_int),
     classification_label |-> PyStr(LabelName(prediction_int)),
     confidence |-> confidence,
     method |-> PyStr("decision_tree_model"),
     original_prediction |-> PyChars(StrOf(prediction)),
     input |-> [ph |-> PyNum(ph), tds |-> PyNum(tds),
                suhu |-> PyNum(suhu), do |-> PyNum(do)]]

\* lines 147-181
ModelDict(prediction, confidence, ph, tds, suhu, do) ==
    ModelDictOf(prediction, PredictionInt(prediction), confidence, ph, tds, suhu, do)

(***************************************************************************)
(* Responses                                                               *)
(***************************************************************************)
Response(status, body) == [status |-> status, body |-> body]

\* lines 122-124
MissingResponse ==
    Response(400, [error |-> PyStr("Missing required parameters. Need: ph, tds, suhu, do")])

\* lines 185-188
ExceptResponse(exc) ==
    IF exc = "ValueError"
    THEN Response(400, [error |-> PyStr("Invalid input values"), exc |-> PyStr(exc)])
    ELSE Response(500, [error |-> PyStr("Classification failed"), exc |-> PyStr(exc)])

\* lines 131-135
FallbackResponse(ph, tds, suhu, do) ==
    Response(200, DictSet(simple_classification(ph, tds, suhu, do), "note",
                          PyStr("Using fallback classification (model not loaded)")))

NotCalled == [kind |-> "not called"]

Handled(resp, pred, proba) ==
    [response |-> resp, predictOut |-> pred, probaOut |-> proba]

\* lines 160-183 once predict has returned
Predicted(pred, proba, c, ph, tds, suhu, do) ==
    IF c.ok
    THEN Handled(Response(200, ModelDict(pred.val, c.val, ph, tds, suhu, do)),
                 pred, proba)
    ELSE Handled(ExceptResponse(c.exc), pred, proba)

\* a model path that answers a failing predict with the threshold classifier
ModelPathFallingBack(pred, proba, ph, tds, suhu, do) ==
    IF pred.kind = "raise"
    THEN Handled(FallbackResponse(ph, tds, suhu, do), pred, NotCalled)
    ELSE Predicted(pred, proba, Confidence(proba), ph, tds, suhu, do)

\* lines 137-183, the model is loaded and the four values are floats
ModelPath(pred, proba, ph, tds, suhu, do) ==
    IF pred.kind = "raise"
    THEN Handled(ExceptResponse(pred.exc), pred, NotCalled)
    ELSE Predicted(pred, proba, Confidence(proba), ph, tds, suhu, do)

Failed(resp) == [ok |-> FALSE, response |-> resp]

\* lines 126-129: the four conversions in the order ph, tds, suhu, do; the
\* first one that raises ends the handler in its except clause
Converted(ph, tds, suhu, do) ==
    IF ~ph.ok THEN Failed(ExceptResponse(ph.exc))
    ELSE IF ~tds.ok THEN Failed(ExceptResponse(tds.exc))
    ELSE IF ~suhu.ok THEN Failed(ExceptResponse(suhu.exc))
    ELSE IF ~do.ok THEN Failed(ExceptResponse(do.exc))
    ELSE Ok([ph |-> ph.val, tds |-> tds.val, suhu |-> suhu.val, do |-> do.val])

\* lines 121-129 once `all(...)` is evaluated
Validated(data, allIn) ==
    IF ~allIn.ok THEN Failed(ExceptResponse(allIn.exc))
    ELSE IF ~allIn.val THEN Failed(MissingResponse)
    ELSE Converted(FloatItem(data, "ph"), FloatItem(data, "tds"),
                   FloatItem(data, "suhu"), FloatItem(data, "do"))

\* request.get_json(), line 118: JSON null decodes to None
Decoded(body) == IF body.kind = "null" THEN PyNone ELSE body

ValidatedData(data) == Validated(data, AllKeysFrom(1, data))

\* lines 118-129: the four floats, or the response of the first step that
\* fails.  body.kind = "absent" is a request without a JSON body, for which
\* request.get_json() raises (or returns None, and `in` raises)
ParseRequest(body) ==
    IF body.kind = "absent" THEN Failed(ExceptResponse("HTTPException"))
    ELSE ValidatedData(Decoded(body))

\* lines 117-188 on the outcome of lines 118-129
classify(m, parsed, pred, proba) ==
    IF ~parsed.ok
    THEN Handled(parsed.response, NotCalled, NotCalled)
    ELSE IF m = PyNone
    THEN Handled(FallbackResponse(parsed.val.ph, parsed.val.tds,
                                  parsed.val.suhu, parsed.val.do),
                 NotCalled, NotCalled)
    ELSE ModelPath(pred, proba, parsed.val.ph, parsed.val.tds,
                   parsed.val.suhu, parsed.val.do)

\* lines 95-102
health(m) ==
    Response(200, [status |-> PyStr("healthy"),
                   model_loaded |-> PyBool(m # PyNone),
                   message |-> PyStr("Classification API is running")])

(***************************************************************************)
(* Inputs                                                                  *)
(***************************************************************************)
Around(ts) == UNION {(t - Near)..(t + Near) : t \in ts}

\* readings of the direct call: every threshold of lines 44-71 and its
\* neighbours, in tenths; TDS also around zero
Readings ==
    [ph : Around({60, 65, 78, 85}),
     tds : Around({0, 500, 4000, 6000}),
     suhu : Around({210, 230, 250, 270}),
     do : Around({25, 40, 60, 70})]

Chars_pad24 == <<" ", "2", "4", ".", "5", " ">>

Chars_abc == <<"a", "b", "c">>

\* JSON values of one field that are not plain numbers
OtherValues ==
    {PyChars(Chars_pad24), PyChars(Chars_abc), PyNone, PyBool(TRUE),
     [kind |-> "list", val |-> <<>>]}

FieldValues(k) ==
    OtherValues \cup
    {PyNum(x) : x \in IF k = "ph" THEN {60, 70}
                      ELSE IF k = "tds" THEN {2000, 7000}
                      ELSE IF k = "suhu" THEN {240, 260}
                      ELSE {20, 50}}

\* JSON objects holding any subset of the four keys
DictBodies ==
    UNION {[ks -> UNION {FieldValues(k) : k \in ks}] : ks \in SUBSET {"ph", "tds", "suhu", "do"}}

WellTypedDicts == {d \in DictBodies : \A k \in DOMAIN d : d[k] \in FieldValues(k)}

\* request bodies: no JSON body, null, a number, lists and strings that do or
\* do not hold the four names, and objects
Bodies ==
    {[kind |-> "absent"], [kind |-> "null"], PyNum(70),
     [kind |-> "list", val |-> <<>>],
     [kind |-> "list", val |-> <<KeyChars("ph"), KeyChars("tds")>>],
     [kind |-> "list", val |-> <<KeyChars("ph"), KeyChars("tds"), KeyChars("suhu"), KeyChars("do")>>],
     PyChars(Chars_abc),
     PyChars(KeyChars("ph") \o KeyChars("tds") \o KeyChars("suhu") \o KeyChars("do"))}
    \cup {[kind |-> "dict", val |-> d] : d \in WellTypedDicts}

PredictedStrings ==
    {S_Layak, S_KurangLayak, S_Kuranglayak, S_TidakLayak, S_Tidaklayak,
     <<"l", "a", "y", "a", "k">>, <<"L", "A", "Y", "A", "K">>,
     <<"k", "u", "r", "a", "n", "g", " ", "l", "a", "y", "a", "k">>,
     <<"K", "U", "R", "A", "N", "G", " ", "L", "A", "Y", "A", "K">>,
     <<"t", "i", "d", "a", "k", " ", "l", "a", "y", "a", "k">>,
     <<"T", "I", "D", "A", "K", " ", "L", "A", "Y", "A", "K">>,
     <<" ">> \o S_TidakLayak \o <<"\n">>,
     <<" ">> \o S_Kuranglayak,
     <<"B", "a", "g", "u", "s">>,
     <<>>}

\* what model.predict(df)[0] may do, line 145
PredictOutcomes ==
    {[kind |-> "raise", exc |-> e] : e \in {"ValueError", "RuntimeError"}}
    \cup {[kind |-> "return", val |-> PyChars(s)] : s \in PredictedStrings}
    \cup {[kind |-> "return", val |-> [kind |-> "int", val |-> n]] : n \in (0 - 1)..MaxLabel}
    \cup {[kind |-> "return", val |-> [kind |-> "float", val |-> x]] : x \in {0, 15, 29, 30}}

\* what model.predict_proba(df)[0] may do, line 162; probabilities in tenths
ProbaOutcomes ==
    {[kind |-> "missing"], [kind |-> "raise", exc |-> "ValueError"],
     [kind |-> "return", val |-> <<>>],
     [kind |-> "return", val |-> <<10, 0, 0>>],
     [kind |-> "return", val |-> <<3, 3, 4>>]}

(***************************************************************************)
(* The process                                                             *)
(***************************************************************************)
Loaded == [kind |-> "model"]

NoRequest == [route |-> "", body |-> [kind |-> "absent"]]

NoResponse == Response(0, EmptyDict)

Init ==
    /\ pc = "startup"
    /\ model = PyNone
    /\ request = NoRequest
    /\ predictOut = NotCalled
    /\ probaOut = NotCalled
    /\ response = NoResponse
    /\ reading = EmptyDict
    /\ result = EmptyDict

\* lines 29-31: joblib.load returns
LoadModelSucceeds ==
    /\ pc = "startup"
    /\ model' = Loaded
    /\ pc' = "serving"
    /\ UNCHANGED <<request, predictOut, probaOut, response, reading, result>>

\* lines 32-34: joblib.load raises
LoadModelFails ==
    /\ pc = "startup"
    /\ model' = PyNone
    /\ pc' = "serving"
    /\ UNCHANGED <<request, predictOut, probaOut, response, reading, result>>

\* GET /health
Health ==
    /\ pc = "serving"
    /\ request' = [route |-> "/health", body |-> [kind |-> "absent"]]
    /\ response' = health(model)
    /\ predictOut' = NotCalled
    /\ probaOut' = NotCalled
    /\ pc' = "responded"
    /\ UNCHANGED <<model, reading, result>>

\* the behaviours of a collaborator are enumerated only where the handler
\* reaches its call
StubChoices(called, outcomes) == IF called THEN outcomes ELSE {NotCalled}

Answer(body, h) ==
    /\ request' = [route |-> "/classify", body |-> body]
    /\ response' = h.response
    /\ predictOut' = h.predictOut
    /\ probaOut' = h.probaOut

ClassifyParsed(body, parsed) ==
    \E pred \in StubChoices(model # PyNone /\ parsed.ok, PredictOutcomes) :
        \E proba \in StubChoices(pred.kind = "return", ProbaOutcomes) :
            Answer(body, classify(model, parsed, pred, proba))

\* POST /classify
Classify ==
    /\ pc = "serving"
    /\ \E body \in Bodies : ClassifyParsed(body, ParseRequest(body))
    /\ pc' = "responded"
    /\ UNCHANGED <<model, reading, result>>

\* the response is sent and the server waits for the next request; nothing
\* of a request outlives it
NextRequest ==
    /\ pc = "responded"
    /\ pc' = "serving"
    /\ request' = NoRequest
    /\ response' = NoResponse
    /\ predictOut' = NotCalled
    /\ probaOut' = NotCalled
    /\ UNCHANGED <<model, reading, result>>

Next == LoadModelSucceeds \/ LoadModelFails \/ Health \/ Classify \/ NextRequest

Spec == Init /\ [][Next]_vars

(***************************************************************************)
(* The direct call of simple_classification                                *)
(***************************************************************************)
InitThreshold ==
    /\ pc = "ready"
    /\ model = PyNone
    /\ request = NoRequest
    /\ predictOut = NotCalled
    /\ probaOut = NotCalled
    /\ response = NoResponse
    /\ reading \in Readings
    /\ result = EmptyDict

CallSimple ==
    /\ pc = "ready"
    /\ result' = simple_classification(reading.ph, reading.tds, reading.suhu, reading.do)
    /\ pc' = "returned"
    /\ UNCHANGED <<model, request, predictOut, probaOut, response, reading>>

NextThreshold == CallSimple

SpecThreshold == InitThreshold /\ [][NextThreshold]_vars

\* the service and the direct call side by side
InitBoth == Init \/ InitThreshold

NextBoth == Next \/ NextThreshold

SpecBoth == InitBoth /\ [][NextBoth]_vars

(***************************************************************************)
(* Properties of simple_classification                                     *)
(***************************************************************************)
Returned == pc = "returned"

NotSuitableCount == result.not_suitable_count.val

LessSuitableCount == result.less_suitable_count.val

Reasons == result.reasons.val

\* the threshold table, in tenths
TierPh(x) ==
    IF 65 <= x /\ x <= 78 THEN "good"
    ELSE IF x < 60 \/ x > 85 THEN "bad" ELSE "marginal"

TierTds(x) ==
    IF 500 <= x /\ x <= 4000 THEN "good"
    ELSE IF x > 6000 THEN "bad" ELSE "marginal"

TierSuhu(x) ==
    IF 230 <= x /\ x <= 250 THEN "good"
    ELSE IF x < 210 \/ x > 270 THEN "bad" ELSE "marginal"

TierDo(x) ==
    IF 40 <= x /\ x <= 60 THEN "good"
    ELSE IF x < 25 \/ x > 70 THEN "bad" ELSE "marginal"

Tiers(r) ==
    [pH |-> TierPh(r.ph), TDS |-> TierTds(r.tds),
     Suhu |-> TierSuhu(r.suhu), DO |-> TierDo(r.do)]

ParamNames == {"pH", "TDS", "Suhu", "DO"}

CountTier(t, tier) == Cardinality({p \in ParamNames : t[p] = tier})

\* what the reasons list says about one parameter
VerdictIn(reasons, param) ==
    IF \A i \in 1..Len(reasons) : reasons[i].param # param THEN "good"
    ELSE IF \E i \in 1..Len(reasons) :
               reasons[i].param = param /\ reasons[i].wording = "tidak layak"
    THEN "bad"
    ELSE "marginal"

\* C1: the classification is 2 whenever not_suitable_count > 0, is 0 whenever
\* not_suitable_count = 0 and less_suitable_count > 0, is 1 exactly when both
\* counts are 0, and is never anything else.
C1_AggregationPriority ==
    Returned =>
        /\ result.classification.val \in {0, 1, 2}
        /\ NotSuitableCount > 0 => result.classification.val = 2
        /\ (NotSuitableCount = 0 /\ LessSuitableCount > 0) => result.classification.val = 0
        /\ result.classification.val = 1 <=> (NotSuitableCount = 0 /\ LessSuitableCount = 0)

\* one bad parameter beside three marginal ones
C1_Witness ==
    /\ Returned
    /\ NotSuitableCount = 1
    /\ LessSuitableCount = 3
    /\ result.classification.val = 2

OthersGood ==
    /\ TierTds(reading.tds) = "good"
    /\ TierSuhu(reading.suhu) = "good"
    /\ TierDo(reading.do) = "good"

C3_TierTable ==
    Returned =>
        /\ \A p \in ParamNames : VerdictIn(Reasons, p) = Tiers(reading)[p]
        /\ NotSuitableCount = CountTier(Tiers(reading), "bad")
        /\ LessSuitableCount = CountTier(Tiers(reading), "marginal")
        /\ NotSuitableCount + LessSuitableCount <= 4

\* the four upper edges 8.5, 600, 27 and 7 together: all marginal
C3_Witness ==
    /\ Returned
    /\ reading = [ph |-> 85, tds |-> 6000, suhu |-> 270, do |-> 70]
    /\ LessSuitableCount = 4
    /\ NotSuitableCount = 0

ParamRank(param) ==
    IF param = "pH" THEN 1 ELSE IF param = "TDS" THEN 2
    ELSE IF param = "Suhu" THEN 3 ELSE 4

\* C9: reasons has one entry for each parameter that is not good and none for
\* a good one, in the order pH, TDS, Suhu, DO; a bad parameter's entry says
\* 'tidak layak', a marginal one's 'kurang layak'; with four good parameters
\* the list is empty, both counts are 0 and the classification is 1.
C9_ReasonsList ==
    Returned =>
        /\ Len(Reasons) = NotSuitableCount + LessSuitableCount
        /\ Len(Reasons) = 4 - CountTier(Tiers(reading), "good")
        /\ \A i \in 1..Len(Reasons) :
               /\ Reasons[i].param \in ParamNames
               /\ Tiers(reading)[Reasons[i].param] # "good"
               /\ Reasons[i].wording =
                      (IF Tiers(reading)[Reasons[i].param] = "bad"
                       THEN "tidak layak" ELSE "kurang layak")
        /\ \A i \in 1..Len(Reasons) : \A j \in 1..Len(Reasons) :
               i < j => ParamRank(Reasons[i].param) < ParamRank(Reasons[j].param)
        /\ CountTier(Tiers(reading), "good") = 4 =>
               /\ Reasons = <<>>
               /\ NotSuitableCount = 0
               /\ LessSuitableCount = 0
               /\ result.classification.val = 1

\* four entries, marginal and bad ones mixed
C9_Witness ==
    /\ Returned
    /\ Len(Reasons) = 4
    /\ Reasons[1].wording = "kurang layak"
    /\ Reasons[2].wording = "tidak layak"
    /\ Reasons[3].wording = "kurang layak"
    /\ Reasons[4].wording = "tidak layak"

(***************************************************************************)
(* Properties of POST /classify                                            *)
(***************************************************************************)
Answered == pc = "responded" /\ request.route = "/classify"

Body == request.body

\* a JSON object holding the four names, each with a JSON number
NumericRequest ==
    /\ Body.kind = "dict"
    /\ \A k \in {"ph", "tds", "suhu", "do"} :
           k \in DOMAIN Body.val /\ Body.val[k].kind = "num"

\* the reading of a NumericRequest
Sent == [ph |-> Body.val["ph"].val, tds |-> Body.val["tds"].val,
         suhu |-> Body.val["suhu"].val, do |-> Body.val["do"].val]

PredictRaised == predictOut.kind = "raise"

PredictReturned == predictOut.kind = "return"

\* C4 as stated: a valid request is answered 200 by the threshold classifier,
\* with a note, both when the model is not loaded and when predict raises.
C4_FallbackOnAnyModelFailure ==
    (Answered /\ NumericRequest /\ (model = PyNone \/ PredictRaised)) =>
        /\ response.status = 200
        /\ response.body.method = PyStr("simple_threshold")
        /\ "note" \in DOMAIN response.body

\* C4 amended: a valid request is answered 200 by the threshold classifier,
\* with a note, when the model is not loaded; when the loaded model raises in
\* predict there is no fallback: the answer is 400 for a ValueError and 500
\* for any other error, and carries an error instead of a classification.
C4_FallbackOnlyWhenNotLoaded ==
    (Answered /\ NumericRequest) =>
        /\ model = PyNone =>
               /\ response.status = 200
               /\ response.body.method = PyStr("simple_threshold")
               /\ "note" \in DOMAIN response.body
               /\ response.body.not_suitable_count.val = CountTier(Tiers(Sent), "bad")
               /\ response.body.less_suitable_count.val = CountTier(Tiers(Sent), "marginal")
               /\ predictOut = NotCalled
        /\ (model # PyNone /\ PredictRaised) =>
               /\ response.status = (IF predictOut.exc = "ValueError" THEN 400 ELSE 500)
               /\ DOMAIN response.body = {"error", "exc"}

\* a valid request answered by the fallback
C4_Witness ==
    /\ Answered
    /\ NumericRequest
    /\ model = PyNone
    /\ response.status = 200
    /\ "note" \in DOMAIN response.body
    /\ response.body.classification.val = 2

UpperChars ==
    <<"A", "B", "C", "D", "E", "F", "G", "H", "I", "J", "K", "L", "M",
      "N", "O", "P", "Q", "R", "S", "T", "U", "V", "W", "X", "Y", "Z">>

LowerChars ==
    <<"a", "b", "c", "d", "e", "f", "g", "h", "i", "j", "k", "l", "m",
      "n", "o", "p", "q", "r", "s", "t", "u", "v", "w", "x", "y", "z">>

LowerChar(c) ==
    IF \E i \in 1..26 : UpperChars[i] = c
    THEN LowerChars[CHOOSE i \in 1..26 : UpperChars[i] = c]
    ELSE c

Lower(str) == [i \in 1..Len(str) |-> LowerChar(str[i])]

\* the label a text stands for when it is trimmed and compared without case
CaseInsensitiveLabel(str) ==
    IF Lower(Strip(str)) = Lower(S_KurangLayak) THEN 0
    ELSE IF Lower(Strip(str)) = Lower(S_TidakLayak) THEN 2
    ELSE 1

\* C5: a string returned by predict is trimmed and matched without regard to
\* case: every case variant of 'Kurang Layak' gives 0, of 'Tidak Layak' 2, of
\* 'Layak' 1, and only text matching none of them defaults to 1.
C5_CaseInsensitiveLabels ==
    (Answered /\ PredictReturned /\ predictOut.val.kind = "chars") =>
        /\ response.status = 200
        /\ response.body.classification.val = CaseInsensitiveLabel(predictOut.val.val)

NamesOfRequest == {"ph", "tds", "suhu", "do"}

SomeAbsent == Body.kind # "dict" \/ \E k \in NamesOfRequest : k \notin DOMAIN Body.val

NumeralChars == {"0", "1", "2", "3", "4", "5", "6", "7", "8", "9", ".", "+", "-", " "}

\* a JSON value that is no number and no text of a number
NotCoercible(v) ==
    \/ v.kind \in {"None", "list", "dict"}
    \/ /\ v.kind = "chars"
       /\ \/ v.val = <<>>
          \/ \E i \in 1..Len(v.val) : v.val[i] \notin NumeralChars

SomeNotCoercible ==
    /\ ~SomeAbsent
    /\ \E k \in NamesOfRequest : NotCoercible(Body.val[k])

\* C6: a body lacking one of the four names (an object without it, or no
\* object at all) is answered 400 with the missing-parameters error; a body
\* with all four, one of them not coercible to a number, is answered 400; 500
\* is left for other failures, and a ValueError of the model is not a 400.
C6_StatusMapping ==
    Answered =>
        /\ SomeAbsent =>
               /\ response.status = 400
               /\ response.body = MissingResponse.body
        /\ SomeNotCoercible => response.status = 400
        /\ response.status = 500 => (~SomeAbsent /\ ~SomeNotCoercible)
        /\ (PredictRaised /\ predictOut.exc = "ValueError") => response.status # 400

ProbaFailed ==
    \/ probaOut.kind \in {"missing", "raise"}
    \/ probaOut.kind = "return" /\ probaOut.val = <<>>

BodyWithoutConfidence(b) == [k \in (DOMAIN b) \ {"confidence"} |-> b[k]]

\* C7: once predict has returned, a failing predict_proba (no such method, an
\* error, an empty row) still gives 200, with confidence null and every other
\* field as in the answer to the same request and prediction with a
\* predict_proba that succeeds; a succeeding one gives the greatest
\* probability times 100.
C7_ProbabilityFailureTolerated ==
    (Answered /\ PredictReturned) =>
        /\ response.status = 200
        /\ response.body.method = PyStr("decision_tree_model")
        /\ ProbaFailed =>
               /\ response.body.confidence = PyNone
               /\ \E ok \in {o \in ProbaOutcomes : o.kind = "return" /\ o.val # <<>>} :
                      BodyWithoutConfidence(response.body) =
                          BodyWithoutConfidence(
                              classify(model, ParseRequest(Body), predictOut, ok).response.body)
        /\ ~ProbaFailed =>
               /\ response.body.confidence.kind = "num"
               /\ \E i \in 1..Len(probaOut.val) :
                      response.body.confidence.val = probaOut.val[i] * 100
               /\ \A i \in 1..Len(probaOut.val) :
                      response.body.confidence.val >= probaOut.val[i] * 100

\* a model without predict_proba answering 'Tidak Layak'
C7_Witness ==
    /\ Answered
    /\ PredictReturned
    /\ probaOut.kind = "missing"
    /\ response.status = 200
    /\ response.body.confidence = PyNone
    /\ response.body.classification.val = 2

FrozenName(c) ==
    IF c = 0 THEN "Kurang Layak" ELSE IF c = 1 THEN "Layak" ELSE "Tidak Layak"

\* C8 as stated: every 200 answer of /classify has a classification in
\* {0, 1, 2} and the label of that number; 'Unknown' is never emitted.
C8_AlwaysFrozenLabels ==
    (Answered /\ response.status = 200) =>
        /\ response.body.classification.val \in {0, 1, 2}
        /\ response.body.classification_label.val = FrozenName(response.body.classification.val)
        /\ response.body.classification_label.val # "Unknown"

NumericPrediction == PredictReturned /\ predictOut.val.kind \in {"int", "float"}

\* C8 amended: a 200 answer of the threshold classifier, or of a model that
\* returned a string, has a classification in {0, 1, 2} and the label of that
\* number; a number returned by the model is passed on as its integer part,
\* with the label of that number when it is 0, 1 or 2 and 'Unknown' otherwise.
C8_FrozenLabelsUnlessNumberOutOfRange ==
    (Answered /\ response.status = 200) =>
        /\ ~NumericPrediction =>
               /\ response.body.classification.val \in {0, 1, 2}
               /\ response.body.classification_label.val =
                      FrozenName(response.body.classification.val)
        /\ NumericPrediction =>
               /\ predictOut.val.kind = "int" =>
                      response.body.classification.val = predictOut.val.val
               /\ predictOut.val.kind = "float" =>
                      /\ response.body.classification.val * 10 <= predictOut.val.val
                      /\ predictOut.val.val < (response.body.classification.val + 1) * 10
               /\ response.body.classification_label.val =
                      (IF response.body.classification.val \in {0, 1, 2}
                       THEN FrozenName(response.body.classification.val)
                       ELSE "Unknown")

\* the model answers 3
C8_Witness ==
    /\ Answered
    /\ response.status = 200
    /\ NumericPrediction
    /\ response.body.classification.val = 3
    /\ response.body.classification_label.val = "Unknown"

ThresholdOnlyFields == {"reasons", "not_suitable_count", "less_suitable_count"}

\* C10: a result whose method is 'simple_threshold' has confidence null,
\* from the direct call and from the fallback of /classify alike; a result
\* built from a prediction of the model has method 'decision_tree_model' and
\* none of reasons, not_suitable_count, less_suitable_count.
C10_ThresholdHasNoConfidence ==
    /\ Returned =>
           /\ result.method = PyStr("simple_threshold")
           /\ result.confidence = PyNone
    /\ (Answered /\ response.status = 200) =>
           /\ response.body.method = PyStr("simple_threshold") =>
                  /\ response.body.confidence = PyNone
                  /\ predictOut = NotCalled
           /\ PredictReturned =>
                  /\ response.body.method = PyStr("decision_tree_model")
                  /\ DOMAIN response.body \cap ThresholdOnlyFields = {}
           /\ response.body.method \in {PyStr("simple_threshold"), PyStr("decision_tree_model")}

\* the fallback answering a request
C10_Witness ==
    /\ Answered
    /\ response.status = 200
    /\ response.body.method = PyStr("simple_threshold")
    /\ response.body.confidence = PyNone
    /\ ThresholdOnlyFields \subseteq DOMAIN response.body

====
